---- MODULE Spec2Model ----
(***************************************************************************)
(* Model of "uses" (src/main.go): a batch pipeline that resolves packages, *)
(* extracts top-level functions and methods, keeps those whose parameter   *)
(* or result types match the --args / --rets filters, and prints them      *)
(* grouped by package.                                                     *)
(*                                                                         *)
(* Go strings are modelled as sequences of bytes, so that strings.Index,   *)
(* string concatenation and sort.Strings are computed as the code computes *)
(* them.  Each element of stdout / stderr is the payload of one Println.   *)
(***************************************************************************)
EXTENDS Integers, Sequences, FiniteSets, TLC

(* ------------------------------------------------------------------ *)
(* Bounds of the model                                                 *)
(* ------------------------------------------------------------------ *)
\* longest --pkgs list explored
MaxPkgs == 2
\* most type names explored in the --args and --rets lists together
MaxFilter == 2

(* ------------------------------------------------------------------ *)
(* State                                                               *)
(* ------------------------------------------------------------------ *)
VARIABLES
    packages,     \* --pkgs, after flag.Parse
    arguments,    \* --args
    returns,      \* --rets
    and,          \* --and
    pc,           \* position of the run in main
    pi,           \* getObjects: index of the next path of pathLoop
    objects,      \* getObjects: the objects collected so far, with their package
    errors,       \* getObjects: the errors collected so far
    parseCalls,   \* the files handed to parser.ParseFile so far, as <<path, index>>
    Fallbacks,    \* ctx.importer.Fallbacks
    funcs,        \* main: the functions getFunctions returned
    errs,         \* main: the errors getFunctions returned
    fi,           \* main: index of the next function of the filter loop
    signatures,   \* main: the map from package path to signature lines
    stdout,       \* what was written to standard output, one entry per Println
    stderr,       \* what was written to standard error, one entry per Println
    exitStatus,   \* the exit status, -1 while the process runs
    run,          \* 1 in the first invocation, 2 in the repeated one
    previous      \* what the first invocation wrote and returned

vars == <<packages, arguments, returns, and, pc, pi, objects, errors,
          parseCalls, Fallbacks, funcs, errs, fi, signatures, stdout, stderr,
          exitStatus, run, previous>>

(* ------------------------------------------------------------------ *)
(* String literals of the source, as bytes                             *)
(* ------------------------------------------------------------------ *)
\* "Couldn't import "
sCouldntImport == <<67,111,117,108,100,110,39,116,32,105,109,112,111,114,116,32>>
\* "Couldn't parse "
sCouldntParse == <<67,111,117,108,100,110,39,116,32,112,97,114,115,101,32>>
\* ": "
sColonSpace == <<58,32>>
\* ": No (non cgo) Go files"
sNoGoFiles == <<58,32,78,111,32,40,110,111,110,32,99,103,111,41,32,71,111,32,102,105,108,101,115>>
\* "could not parse: "
sCouldNotParse == <<99,111,117,108,100,32,110,111,116,32,112,97,114,115,101,58,32>>
\* "%!s(MISSING)": what fmt prints for a %s verb that has no operand
sMissing == <<37,33,115,40,77,73,83,83,73,78,71,41>>
\* "\n"
sNewline == <<10>>
\* "Need to specify at least one package to check."
sNeedPackage == <<78,101,101,100,32,116,111,32,115,112,101,99,105,102,121,32,97,116,32,108,101,97,115,116,32,111,110,101,32,112,97,99,107,97,103,101,32,116,111,32,99,104,101,99,107,46>>
\* "Need at least one type to search for."
sNeedType == <<78,101,101,100,32,97,116,32,108,101,97,115,116,32,111,110,101,32,116,121,112,101,32,116,111,32,115,101,97,114,99,104,32,102,111,114,46>>
\* "Relying on gc generated data for..."
sRelying == <<82,101,108,121,105,110,103,32,111,110,32,103,99,32,103,101,110,101,114,97,116,101,100,32,100,97,116,97,32,102,111,114,46,46,46>>
\* the text flag.Usage() writes (external to the program; abridged to "Usage")
sUsage == <<85,115,97,103,101>>
\* the marker noDot searches for: the four bytes of the literal in the source
sDot == <<195,130,194,183>>

(* ------------------------------------------------------------------ *)
(* The packages the run can be pointed at (the external collaborators: *)
(* go/build, go/parser, go/types and the importer answer from here)    *)
(* ------------------------------------------------------------------ *)
\* the type strings the declarations use
tT == <<84>>
\* "error"
tU == <<101,114,114,111,114>>

Var(name, typ) == [name |-> name, type |-> typ]

\* a *types.Signature; sig.ok = FALSE is a type that is no *types.Signature
Sig(recv, params, results) ==
    [ok |-> TRUE, recv |-> recv, params |-> params, results |-> results]
NoSig == [ok |-> FALSE, recv |-> <<>>, params |-> <<>>, results |-> <<>>]

\* a *types.Func: pkg is <<>> when (*Func).Pkg() is nil, <<path>> otherwise
Func(name, pkg, sig) == [name |-> name, pkg |-> pkg, sig |-> sig]

\* an object of a package scope: kind is "func", "type" or "var"
FuncObj(f) == [kind |-> "func", name |-> f.name, func |-> <<f>>,
               named |-> FALSE, methods |-> <<>>]
TypeObj(name, named, methods) ==
    [kind |-> "type", name |-> name, func |-> <<>>,
     named |-> named, methods |-> methods]
VarObj(name) == [kind |-> "var", name |-> name, func |-> <<>>,
                 named |-> FALSE, methods |-> <<>>]

\* package paths
pA  == <<97>>
pAB == <<97,98>>
pB  == <<98>>
pC  == <<99>>
pD  == <<100>>
pE  == <<101>>
pF  == <<102>>
pG  == <<103>>
pFmt == <<102,109,116>>

PkgPaths == {pA, pAB, pB, pC, pD, pE, pF, pG}

\* "*T"
tPtrT == <<42,84>>
\* "b.N"
tBN == <<98,46,78>>
\* "Foo"
nFoo == <<70,111,111>>

\* package a, type-checked from source:
\*   func F(x T) (error)
\*   type T, with  (n *T) M(error, y T) ()  and  (t *T) Foo() (error)
\*   var V
ScopeA ==
    << FuncObj(Func(<<70>>, <<pA>>,
                    Sig(<<>>, <<Var(<<120>>, tT)>>, <<Var(<<>>, tU)>>))),
       TypeObj(<<84>>, TRUE,
               << Func(<<77>>, <<pA>>,
                       Sig(<<Var(<<110>>, tPtrT)>>,
                           <<Var(<<>>, tU), Var(<<121>>, tT)>>, <<>>)),
                  Func(nFoo, <<pA>>,
                       Sig(<<Var(<<116>>, tPtrT)>>,
                           <<>>, <<Var(<<>>, tU)>>)) >>),
       VarObj(<<86>>) >>

\* package ab, type-checked from source:
\*   func H() (error, e<marker>1 error)
ScopeAB ==
    << FuncObj(Func(<<72>>, <<pAB>>,
                    Sig(<<>>, <<>>,
                        <<Var(<<>>, tU),
                          Var(<<101>> \o sDot \o <<49>>, tU)>>))) >>

\* package b, precompiled (GOROOT):
\*   a builtin B, whose type is no signature
\*   func G(p<marker>1 T, z<C2 B7>1 error) (T)
\*   type N, with  (r<marker>2 b.N) M() (T)  whose own Pkg() is nil
\*   a type name X that is no *types.Named
ScopeB ==
    << FuncObj(Func(<<66>>, <<pB>>, NoSig)),
       FuncObj(Func(<<71>>, <<pB>>,
                    Sig(<<>>,
                        <<Var(<<112>> \o sDot \o <<49>>, tT),
                          Var(<<122,194,183,49>>, tU)>>,
                        <<Var(<<>>, tT)>>))),
       TypeObj(<<78>>, TRUE,
               << Func(<<77>>, <<>>,
                       Sig(<<Var(<<114>> \o sDot \o <<50>>, tBN)>>,
                           <<>>, <<Var(<<>>, tT)>>)) >>),
       TypeObj(<<88>>, FALSE, <<>>) >>

\* what the collaborators answer for one package:
\*   importOk   build.Import succeeds
\*   goroot     buildPkg.Goroot
\*   gcOk       types.GcImport succeeds
\*   goFiles    buildPkg.GoFiles, each entry TRUE iff parser.ParseFile succeeds
\*   checkOk    Config.Check succeeds
\*   scope      the objects of pkg.Scope(), in the order of scope.Names()
\*   fallbacks  the imports for which the importer falls back to gc data
Pkg(importOk, goroot, gcOk, goFiles, checkOk, scope, fallbacks) ==
    [importOk |-> importOk, goroot |-> goroot, gcOk |-> gcOk,
     goFiles |-> goFiles, checkOk |-> checkOk, scope |-> scope,
     fallbacks |-> fallbacks]

World ==
    [p \in PkgPaths |->
       CASE p = pA  -> Pkg(TRUE, FALSE, FALSE, <<TRUE, TRUE>>, TRUE, ScopeA, <<pFmt>>)
         [] p = pAB -> Pkg(TRUE, FALSE, FALSE, <<TRUE>>, TRUE, ScopeAB, <<pFmt>>)
         [] p = pB  -> Pkg(TRUE, TRUE, TRUE, <<>>, FALSE, ScopeB, <<>>)
         \* c: build.Import fails
         [] p = pC  -> Pkg(FALSE, FALSE, FALSE, <<TRUE>>, TRUE, ScopeAB, <<>>)
         \* d: precompiled, GcImport fails
         [] p = pD  -> Pkg(TRUE, TRUE, FALSE, <<>>, FALSE, ScopeB, <<>>)
         \* e: no (non cgo) Go files
         [] p = pE  -> Pkg(TRUE, FALSE, FALSE, <<>>, TRUE, ScopeAB, <<>>)
         \* f: the second of three files does not parse
         [] p = pF  -> Pkg(TRUE, FALSE, FALSE, <<TRUE, FALSE, TRUE>>, TRUE, ScopeAB, <<>>)
         \* g: type checking fails
         [] p = pG  -> Pkg(TRUE, FALSE, FALSE, <<TRUE>>, FALSE, ScopeAB, <<pFmt>>)]

\* the text of the error a collaborator returns (abridged to "E")
ErrText == <<69>>

(* ------------------------------------------------------------------ *)
(* Pure functions of the source                                        *)
(* ------------------------------------------------------------------ *)
\* strings.Index: the 0-based index of the first occurrence of sep, or -1
Index(s, sep) ==
    LET hits == {i \in 0..(Len(s) - Len(sep)) :
                    SubSeq(s, i + 1, i + Len(sep)) = sep}
    IN  IF hits = {} THEN -1
        ELSE CHOOSE i \in hits : \A j \in hits : i <= j

\* a slip: the name returned as it is
noDotNot(s) == s

noDot(s) ==
    LET index == Index(s, sDot)
    IN  IF index = -1 THEN s ELSE SubSeq(s, 1, index)

\* strings.Join
RECURSIVE Join(_, _)
Join(a, sep) ==
    IF Len(a) = 0 THEN <<>>
    ELSE IF Len(a) = 1 THEN a[1]
    ELSE a[1] \o sep \o Join(Tail(a), sep)

argsToString(args) ==
    LET ret == [i \in 1..Len(args) |->
                  LET name == noDot(args[i].name)
                      typ  == args[i].type
                  IN  IF Len(name) = 0 THEN typ
                      ELSE name \o <<32>> \o typ]
    IN  Join(ret, <<44,32>>)

\* the inner loop of checkTypes: one parameter against every filter entry
RECURSIVE checkTypesInner(_, _, _, _)
checkTypesInner(arg, types, k, st) ==
    IF k > Len(types) THEN st
    ELSE checkTypesInner(arg, types, k + 1,
            IF arg.type = types[k]
            THEN [matched |-> [st.matched EXCEPT ![k] = TRUE], any |-> TRUE]
            ELSE st)

\* the outer loop of checkTypes: every parameter in turn
RECURSIVE checkTypesOuter(_, _, _, _)
checkTypesOuter(args, types, i, st) ==
    IF i > Len(args) THEN st
    ELSE checkTypesOuter(args, types, i + 1,
                         checkTypesInner(args[i], types, 1, st))

\* a slip: "all" as coverage of the parameters instead of the filter entries
checkTypesParamCoverage(args, types) ==
    [any |-> \E i \in 1..Len(args) : \E k \in 1..Len(types) :
                args[i].type = types[k],
     all |-> \A i \in 1..Len(args) : \E k \in 1..Len(types) :
                args[i].type = types[k]]

checkTypes(args, types) ==
    LET st == checkTypesOuter(args, types, 1,
                  [matched |-> [k \in 1..Len(types) |-> FALSE], any |-> FALSE])
    IN  [any |-> st.any, all |-> \A k \in 1..Len(types) : st.matched[k]]

\* a slip: OR mode asking for a match on both sides
keepBothSides(anyArg, allArg, anyRet, allRet, mode) ==
    (~mode /\ (anyArg /\ anyRet)) \/ (mode /\ allArg /\ allRet)

\* line 273 of main: is the function kept? (mode is the flag "and")
keep(anyArg, allArg, anyRet, allRet, mode) ==
    (~mode /\ (anyArg \/ anyRet)) \/ (mode /\ allArg /\ allRet)

\* byte-wise string comparison, as Go's < on strings
Less(a, b) ==
    \E i \in 1..Len(b) :
        /\ i <= Len(a) + 1
        /\ \A j \in 1..(i - 1) : a[j] = b[j]
        /\ (i = Len(a) + 1 \/ a[i] < b[i])

RECURSIVE insertSorted(_, _)
insertSorted(sorted, x) ==
    IF Len(sorted) = 0 THEN <<x>>
    ELSE IF Less(x, sorted[1]) THEN <<x>> \o sorted
    ELSE <<sorted[1]>> \o insertSorted(Tail(sorted), x)

\* a slip: the keys left in the order they were collected
sortStringsNot(keys) == keys

\* sort.Strings
RECURSIVE sortStrings(_)
sortStrings(keys) ==
    IF Len(keys) = 0 THEN <<>>
    ELSE insertSorted(sortStrings(Tail(keys)), keys[1])

\* the orders in which "for k := range m" can deliver the keys of a map
KeyOrders(m) ==
    {o \in [1..Cardinality(DOMAIN m) -> DOMAIN m] :
        \A i, j \in DOMAIN o : i # j => o[i] # o[j]}

\* a slip: the keys sorted in descending order
sortedKeysReversed(m, order) ==
    LET keys == sortStrings(order)
    IN  [i \in 1..Len(keys) |-> keys[Len(keys) + 1 - i]]

\* sortedKeys, "order" being the order the range over m delivered the keys in
sortedKeys(m, order) ==
    LET keys == order
    IN  sortStrings(keys)

\* lines 274-277 of main: "(%s %s) "
receiverPrefix(sig) ==
    IF Len(sig.recv) # 0
    THEN <<40>> \o noDot(sig.recv[1].name) \o <<32>> \o sig.recv[1].type \o <<41,32>>
    ELSE <<>>

\* lines 280-284 of main: "%s%s(%s) (%s)"
formatSignature(fnc) ==
    LET sig == fnc.Func.sig
    IN  receiverPrefix(sig) \o fnc.Func.name
            \o <<40>> \o argsToString(sig.params)
            \o <<41,32,40>> \o argsToString(sig.results) \o <<41>>

(* ------------------------------------------------------------------ *)
(* getObjects and getFunctions                                         *)
(* ------------------------------------------------------------------ *)
\* a slip: the error of parseFile dropped
parseFilesIgnoringErrors(files, i) ==
    [failed |-> FALSE, calls |-> Len(files)]

\* the loop over buildPkg.GoFiles from file i on: it stops at the first file
\* that does not parse; calls is the number of files handed to the parser
RECURSIVE parseFiles(_, _)
parseFiles(files, i) ==
    IF i > Len(files) THEN [failed |-> FALSE, calls |-> Len(files)]
    ELSE IF ~files[i] THEN [failed |-> TRUE, calls |-> i]
    ELSE parseFiles(files, i + 1)

\* the objects of a resolved package, each with the package it came from
scopeObjects(path) ==
    [i \in 1..Len(World[path].scope) |->
        [obj |-> World[path].scope[i], pkg |-> path]]

Outcome(errors_, objects_, calls, fallbacks) ==
    [errors |-> errors_, objects |-> objects_, calls |-> calls,
     fallbacks |-> fallbacks]

\* one iteration of pathLoop: the errors and objects it appends, the number
\* of files it parses and the fallbacks the importer records meanwhile
loadPackage(path) ==
    LET w == World[path]
        importError == sCouldntImport \o path \o sColonSpace \o ErrText
    IN  IF ~w.importOk THEN Outcome(<<importError>>, <<>>, 0, <<>>)
        ELSE IF w.goroot
        THEN IF ~w.gcOk THEN Outcome(<<importError>>, <<>>, 0, <<>>)
             ELSE Outcome(<<>>, scopeObjects(path), 0, <<>>)
        ELSE IF Len(w.goFiles) = 0
        THEN Outcome(<<sCouldntParse \o path \o sNoGoFiles>>, <<>>, 0, <<>>)
        ELSE LET parsed == parseFiles(w.goFiles, 1)
             IN  IF parsed.failed
                 \* Errorf("Couldn't parse %s: %s", err): the path is not passed
                 THEN Outcome(<<sCouldntParse \o (sCouldNotParse \o ErrText)
                                  \o sColonSpace \o sMissing>>,
                              <<>>, parsed.calls, <<>>)
                 ELSE IF ~w.checkOk
                 THEN Outcome(<<sCouldntParse \o path \o sColonSpace
                                  \o ErrText \o sNewline>>,
                              <<>>, parsed.calls, w.fallbacks)
                 ELSE Outcome(<<>>, scopeObjects(path), parsed.calls,
                              w.fallbacks)

\* the importer records each fallback once
RECURSIVE recordFallbacks(_, _)
recordFallbacks(list, new) ==
    IF Len(new) = 0 THEN list
    ELSE recordFallbacks(
            IF \E i \in 1..Len(list) : list[i] = new[1] THEN list
            ELSE Append(list, new[1]),
            Tail(new))

\* the struct "function": a *types.Func and the package it is reported under
function(f, pkg) == [Func |-> f, Pkg |-> pkg]

\* a slip: a method filed under its own Pkg(), which is nil for gc data
functionsOfObjectOwnPkg(o) ==
    IF o.obj.kind = "func" THEN <<function(o.obj.func[1], o.pkg)>>
    ELSE IF o.obj.kind # "type" THEN <<>>
    ELSE IF ~o.obj.named THEN <<>>
    ELSE [i \in 1..Len(o.obj.methods) |->
            function(o.obj.methods[i],
                     IF Len(o.obj.methods[i].pkg) = 0 THEN <<>>
                     ELSE o.obj.methods[i].pkg[1])]

\* the body of the loop of getFunctions: what one object contributes
functionsOfObject(o) ==
    IF o.obj.kind = "func" THEN <<function(o.obj.func[1], o.pkg)>>
    ELSE IF o.obj.kind # "type" THEN <<>>
    ELSE IF ~o.obj.named THEN <<>>
    ELSE [i \in 1..Len(o.obj.methods) |->
            function(o.obj.methods[i], o.pkg)]

\* the loop of getFunctions over the objects
RECURSIVE functionsOf(_)
functionsOf(objs) ==
    IF Len(objs) = 0 THEN <<>>
    ELSE functionsOfObject(objs[1]) \o functionsOf(Tail(objs))

(* ------------------------------------------------------------------ *)
(* The run                                                             *)
(* ------------------------------------------------------------------ *)
\* the type names a filter can hold
FilterTypes == {tT, tU}

SeqsUpTo(S, n) == UNION {[1..k -> S] : k \in 0..n}

NoOutput == [stdout |-> <<>>, stderr |-> <<>>, exitStatus |-> -1]

\* the state of a process after init() parsed the flags
Fresh ==
    /\ pc = "main"
    /\ pi = 1
    /\ objects = <<>>
    /\ errors = <<>>
    /\ parseCalls = <<>>
    /\ Fallbacks = <<>>
    /\ funcs = <<>>
    /\ errs = <<>>
    /\ fi = 1
    /\ signatures = <<>>
    /\ stdout = <<>>
    /\ stderr = <<>>
    /\ exitStatus = -1

Init ==
    /\ packages \in SeqsUpTo(PkgPaths, MaxPkgs)
    /\ arguments \in SeqsUpTo(FilterTypes, MaxFilter)
    /\ returns \in SeqsUpTo(FilterTypes, MaxFilter - Len(arguments))
    /\ and \in BOOLEAN
    /\ Fresh
    /\ run = 1
    /\ previous = NoOutput

inputs == <<packages, arguments, returns, and>>
extraction == <<pi, objects, errors, parseCalls, Fallbacks>>

\* a slip: the type check dropped
noTypesUnchecked == FALSE

\* a slip: both filters demanded
noTypesEither == Len(arguments) = 0 \/ Len(returns) = 0

\* line 240 of main
noTypes == Len(arguments) + Len(returns) = 0

\* lines 234-238 of main
NoPackages ==
    /\ pc = "main"
    /\ Len(packages) = 0
    /\ stderr' = stderr \o <<sNeedPackage, sUsage>>
    /\ exitStatus' = 1
    /\ pc' = "exited"
    /\ UNCHANGED <<inputs, extraction, funcs, errs, fi, signatures, stdout,
                   run, previous>>

\* lines 240-244 of main
NoTypes ==
    /\ pc = "main"
    /\ Len(packages) # 0
    /\ noTypes
    /\ stderr' = stderr \o <<sNeedType, sUsage>>
    /\ exitStatus' = 1
    /\ pc' = "exited"
    /\ UNCHANGED <<inputs, extraction, funcs, errs, fi, signatures, stdout,
                   run, previous>>

\* lines 246-251 of main: the flags are accepted and getFunctions is entered
\* (gotool.ImportPaths returns literal paths as they are)
Start ==
    /\ pc = "main"
    /\ Len(packages) # 0
    /\ ~noTypes
    /\ pc' = "getObjects"
    /\ UNCHANGED <<inputs, extraction, funcs, errs, fi, signatures, stdout,
                   stderr, exitStatus, run, previous>>

\* one iteration of pathLoop in getObjects
GetObjectsStep ==
    /\ pc = "getObjects"
    /\ pi <= Len(packages)
    /\ LET path == packages[pi]
           r == loadPackage(path)
       IN  /\ errors' = errors \o r.errors
           /\ objects' = objects \o r.objects
           /\ parseCalls' = parseCalls \o [i \in 1..r.calls |-> <<path, i>>]
           /\ Fallbacks' = recordFallbacks(Fallbacks, r.fallbacks)
    /\ pi' = pi + 1
    /\ UNCHANGED <<inputs, pc, funcs, errs, fi, signatures, stdout, stderr,
                   exitStatus, run, previous>>

\* getObjects returns; getFunctions turns the objects into functions
GetFunctions ==
    /\ pc = "getObjects"
    /\ pi > Len(packages)
    /\ funcs' = functionsOf(objects)
    /\ errs' = errors
    /\ pc' = "listErrors"
    /\ UNCHANGED <<inputs, extraction, fi, signatures, stdout, stderr,
                   exitStatus, run, previous>>

\* listErrors: fmt.Println of every error
ListErrors ==
    /\ pc = "listErrors"
    /\ stdout' = stdout \o errs
    /\ pc' = "fallbacks"
    /\ UNCHANGED <<inputs, extraction, funcs, errs, fi, signatures, stderr,
                   exitStatus, run, previous>>

\* lines 253-259 of main
PrintFallbacks ==
    /\ pc = "fallbacks"
    /\ stderr' = IF Len(Fallbacks) > 0
                 THEN stderr \o <<sRelying>> \o Fallbacks \o << <<>> >>
                 ELSE stderr
    /\ pc' = "filter"
    /\ UNCHANGED <<inputs, extraction, funcs, errs, fi, signatures, stdout,
                   exitStatus, run, previous>>

\* signatures[key] = append(signatures[key], line)
appendSignature(m, key, line) ==
    [k \in DOMAIN m \cup {key} |->
        IF k = key
        THEN (IF key \in DOMAIN m THEN Append(m[key], line) ELSE <<line>>)
        ELSE m[k]]

\* lines 264-273 of main under the given mode: is the function kept?
keptWith(fnc, mode) ==
    /\ fnc.Func.sig.ok
    /\ LET a == checkTypes(fnc.Func.sig.params, arguments)
           r == checkTypes(fnc.Func.sig.results, returns)
       IN  keep(a.any, a.all, r.any, r.all, mode)

kept(fnc) == keptWith(fnc, and)

\* one iteration of the loop over funcs (lines 263-286 of main)
FilterStep ==
    /\ pc = "filter"
    /\ fi <= Len(funcs)
    /\ signatures' = IF kept(funcs[fi])
                     THEN appendSignature(signatures, funcs[fi].Pkg,
                                          formatSignature(funcs[fi]))
                     ELSE signatures
    /\ fi' = fi + 1
    /\ UNCHANGED <<inputs, extraction, pc, funcs, errs, stdout, stderr,
                   exitStatus, run, previous>>

\* what the loop of lines 288-295 prints for the given keys
RECURSIVE reportLines(_, _)
reportLines(m, keys) ==
    IF Len(keys) = 0 THEN <<>>
    ELSE <<keys[1] \o <<58>>>>
            \o [i \in 1..Len(m[keys[1]]) |-> <<9>> \o m[keys[1]][i]]
            \o << <<>> >>
            \o reportLines(m, Tail(keys))

\* lines 288-296 of main: the report, and main returns
Report ==
    /\ pc = "filter"
    /\ fi > Len(funcs)
    /\ \E order \in KeyOrders(signatures) :
          stdout' = stdout \o reportLines(signatures, sortedKeys(signatures, order))
    /\ exitStatus' = 0
    /\ pc' = "exited"
    /\ UNCHANGED <<inputs, extraction, funcs, errs, fi, signatures, stderr,
                   run, previous>>

\* the tool is started once more with the same flags on the same packages
Rerun ==
    /\ pc = "exited"
    /\ run = 1
    /\ previous' = [stdout |-> stdout, stderr |-> stderr,
                    exitStatus |-> exitStatus]
    /\ run' = 2
    /\ pc' = "main"
    /\ pi' = 1
    /\ objects' = <<>>
    /\ errors' = <<>>
    /\ parseCalls' = <<>>
    /\ Fallbacks' = <<>>
    /\ funcs' = <<>>
    /\ errs' = <<>>
    /\ fi' = 1
    /\ signatures' = <<>>
    /\ stdout' = <<>>
    /\ stderr' = <<>>
    /\ exitStatus' = -1
    /\ UNCHANGED inputs

Next ==
    \/ NoPackages
    \/ NoTypes
    \/ Start
    \/ GetObjectsStep
    \/ GetFunctions
    \/ ListErrors
    \/ PrintFallbacks
    \/ FilterStep
    \/ Report
    \/ Rerun

Spec == Init /\ [][Next]_vars

(* ------------------------------------------------------------------ *)
(* Vocabulary of the properties                                        *)
(* ------------------------------------------------------------------ *)
Range(q) == {q[i] : i \in DOMAIN q}

TypesOf(tuple) == {tuple[i].type : i \in DOMAIN tuple}

\* the run got past the checks of the flags and wrote its report
Reported == pc = "exited" /\ exitStatus = 0

\* the filter loop is about to look at funcs[fi]
AtFunction == pc = "filter" /\ fi <= Len(funcs)

\* the step just taken filed one more signature line
FiledOne ==
    \E p \in DOMAIN signatures' :
        LET before == IF p \in DOMAIN signatures THEN signatures[p] ELSE <<>>
        IN  /\ Len(signatures'[p]) = Len(before) + 1
            /\ \A q \in DOMAIN signatures' \ {p} :
                  q \in DOMAIN signatures /\ signatures'[q] = signatures[q]

\* some parameter type is in --args, or some result type is in --rets
OrMatch(f) ==
    \/ TypesOf(f.sig.params) \cap Range(arguments) # {}
    \/ TypesOf(f.sig.results) \cap Range(returns) # {}

\* every entry of --args is a parameter type, every entry of --rets a result type
AndMatch(f) ==
    /\ Range(arguments) \subseteq TypesOf(f.sig.params)
    /\ Range(returns) \subseteq TypesOf(f.sig.results)

(* ------------------------------------------------------------------ *)
(* C1                                                                  *)
(* ------------------------------------------------------------------ *)
\* C1: in OR mode a function with a signature is filed for the report if and
\* only if one of its parameter types is an entry of --args or one of its
\* result types is an entry of --rets; an empty list matches nothing.
C1_OrModeReportsIffAnyMatch ==
    [][(AtFunction /\ ~and /\ funcs[fi].Func.sig.ok)
         => /\ FiledOne <=> OrMatch(funcs[fi].Func)
            /\ ~FiledOne => signatures' = signatures]_vars

\* an OR-mode run with an empty --args list that kept one function with a
\* signature and dropped another
C1_Witness ==
    /\ Reported /\ ~and /\ Len(arguments) = 0
    /\ \E i, j \in 1..Len(funcs) :
          /\ funcs[i].Func.sig.ok /\ OrMatch(funcs[i].Func)
          /\ funcs[i].Pkg \in DOMAIN signatures
          /\ funcs[j].Func.sig.ok /\ ~OrMatch(funcs[j].Func)
          /\ Len(funcs[j].Func.sig.params) > 0

(* ------------------------------------------------------------------ *)
(* C2                                                                  *)
(* ------------------------------------------------------------------ *)
\* C2: in AND mode a function with a signature is filed for the report if
\* and only if every entry of --args is the type of one of its parameters and
\* every entry of --rets the type of one of its results (an empty list asks
\* for nothing; parameters of other types do not matter).
C2_AndModeReportsIffCovered ==
    [][(AtFunction /\ and /\ funcs[fi].Func.sig.ok)
         => /\ FiledOne <=> AndMatch(funcs[fi].Func)
            /\ ~FiledOne => signatures' = signatures]_vars

\* an AND-mode run with an empty --rets list that kept a function having a
\* parameter of a type that is not in --args, and dropped another function
C2_Witness ==
    /\ Reported /\ and /\ Len(returns) = 0
    /\ \E i, j \in 1..Len(funcs) :
          /\ funcs[i].Func.sig.ok /\ AndMatch(funcs[i].Func)
          /\ funcs[i].Pkg \in DOMAIN signatures
          /\ ~(TypesOf(funcs[i].Func.sig.params) \subseteq Range(arguments))
          /\ funcs[j].Func.sig.ok /\ ~AndMatch(funcs[j].Func)

(* ------------------------------------------------------------------ *)
(* C3                                                                  *)
(* ------------------------------------------------------------------ *)
\* the two lines of a refused run: a message, then the usage text
UsagePrinted == Len(stderr) = 2 /\ stderr[2] = sUsage

\* nothing was extracted and nothing was reported
NothingDone ==
    /\ pi = 1 /\ objects = <<>> /\ errors = <<>> /\ parseCalls = <<>>
    /\ funcs = <<>> /\ DOMAIN signatures = {} /\ stdout = <<>>

\* C3: the run ends with status 1, having printed the usage text to standard
\* error and extracted and reported nothing, exactly when --pkgs is empty or
\* --args and --rets are both empty; every other run ends with status 0,
\* however many packages failed.  A run that has not ended can take a step.
C3_ExitStatus ==
    /\ pc = "exited" =>
          /\ exitStatus \in {0, 1}
          /\ exitStatus = 1 <=>
                (Len(packages) = 0 \/ (Len(arguments) = 0 /\ Len(returns) = 0))
          /\ exitStatus = 1 => (UsagePrinted /\ NothingDone)
    /\ pc # "exited" => (exitStatus = -1 /\ ENABLED Next)

\* a run in which every one of at least two packages failed, ended with 0
C3_Witness ==
    /\ Reported
    /\ Len(packages) >= 2
    /\ Len(errs) = Len(packages)

(* ------------------------------------------------------------------ *)
(* C4                                                                  *)
(* ------------------------------------------------------------------ *)
\* the package cannot be resolved: import, source files, parsing or checking
Fails(p) ==
    \/ ~World[p].importOk
    \/ World[p].goroot /\ ~World[p].gcOk
    \/ /\ ~World[p].goroot
       /\ \/ Len(World[p].goFiles) = 0
          \/ \E i \in DOMAIN World[p].goFiles : ~World[p].goFiles[i]
          \/ ~World[p].checkOk

Resolves(p) == ~Fails(p)

\* every top-level object of the resolved packages among paths, in order
RECURSIVE DeclaredBy(_)
DeclaredBy(paths) ==
    IF Len(paths) = 0 THEN <<>>
    ELSE (IF Fails(paths[1]) THEN <<>>
          ELSE [i \in DOMAIN World[paths[1]].scope |->
                  [obj |-> World[paths[1]].scope[i], pkg |-> paths[1]]])
         \o DeclaredBy(Tail(paths))

\* the signature map the filter loop builds from the given functions
RECURSIVE collect(_, _)
collect(m, fs) ==
    IF Len(fs) = 0 THEN m
    ELSE collect(IF kept(fs[1])
                 THEN appendSignature(m, fs[1].Pkg, formatSignature(fs[1]))
                 ELSE m,
                 Tail(fs))

\* the report a run on the given paths writes after its error lines
ReportFor(paths) ==
    LET m == collect(<<>>, functionsOf(DeclaredBy(paths)))
    IN  reportLines(m, sortedKeys(m, CHOOSE o \in KeyOrders(m) : TRUE))

\* what the run wrote to standard output after the lines of listErrors
ReportPart == SubSeq(stdout, Len(errs) + 1, Len(stdout))

\* C4: getObjects visits every path; a path that fails (import, no source
\* files, parsing, type checking) adds exactly one error and no object, the
\* files after the first unparsable one are not parsed, and every other path
\* contributes all its top-level objects; a failed package heads no block of
\* the report, and the report is what it is without the failed paths.
C4_FailedPackagesSkipped ==
    LET visited == SubSeq(packages, 1, pi - 1)
    IN  /\ Len(errors) = Cardinality({i \in 1..(pi - 1) : Fails(packages[i])})
        /\ objects = DeclaredBy(visited)
        /\ \A c \in Range(parseCalls) :
              \A j \in 1..(c[2] - 1) : World[c[1]].goFiles[j]
        /\ pc \in {"listErrors", "fallbacks", "filter"} \/ Reported
              => pi = Len(packages) + 1
        /\ Reported =>
              /\ \A p \in DOMAIN signatures : Resolves(p)
              /\ ReportPart = ReportFor(SelectSeq(packages, Resolves))

\* a run over a package whose second file does not parse and a package that
\* resolves and has a block in the report
C4_Witness ==
    /\ Reported
    /\ \E i, j \in 1..Len(packages) :
          /\ \E k \in DOMAIN World[packages[i]].goFiles :
                ~World[packages[i]].goFiles[k]
          /\ <<packages[i], 2>> \in Range(parseCalls)
          /\ packages[j] \in DOMAIN signatures
    /\ Len(errs) = 1

(* ------------------------------------------------------------------ *)
(* Reading the report back from standard output                        *)
(* ------------------------------------------------------------------ *)
\* a function or method has a signature and passes the filter of the run
Matches(f) == f.sig.ok /\ (IF and THEN AndMatch(f) ELSE OrMatch(f))

\* the functions an object of a scope declares: itself, or its methods
Decls(o) ==
    IF o.obj.kind = "func" THEN o.obj.func
    ELSE IF o.obj.kind = "type" /\ o.obj.named THEN o.obj.methods
    ELSE <<>>

\* the packages that own a declaration the filter lets through
Owners == {o.pkg : o \in {x \in Range(objects) :
                            \E d \in Range(Decls(x)) : Matches(d)}}

IsSignatureLine(l) == Len(l) > 0 /\ l[1] = 9
IsHeaderLine(l) == Len(l) > 0 /\ l[1] # 9

\* the header lines of the report, in the order printed, without the ":"
HeaderPaths ==
    LET hs == SelectSeq(ReportPart, IsHeaderLine)
    IN  [i \in DOMAIN hs |-> SubSeq(hs[i], 1, Len(hs[i]) - 1)]

HasBlock(p) == \E i \in DOMAIN ReportPart : ReportPart[i] = p \o <<58>>

\* the lines printed under the header of p, without their tab
BlockLines(p) ==
    LET h == CHOOSE i \in DOMAIN ReportPart : ReportPart[i] = p \o <<58>>
        e == CHOOSE j \in (h + 1)..Len(ReportPart) :
                /\ ~IsSignatureLine(ReportPart[j])
                /\ \A k \in (h + 1)..(j - 1) : IsSignatureLine(ReportPart[k])
    IN  [k \in 1..(e - h - 1) |-> Tail(ReportPart[h + k])]

(* ------------------------------------------------------------------ *)
(* C5                                                                  *)
(* ------------------------------------------------------------------ *)
\* C5: the report has exactly one block for each package that owns a kept
\* declaration, and the blocks are in ascending byte order of the package
\* path, whatever the order of --pkgs and of the iteration over the map.
C5_BlocksSortedByPackage ==
    Reported =>
        /\ Range(HeaderPaths) = Owners
        /\ \A i, j \in DOMAIN HeaderPaths :
              i < j => Less(HeaderPaths[i], HeaderPaths[j])
        /\ \A l \in Range(SelectSeq(ReportPart, IsHeaderLine)) :
              l[Len(l)] = 58

\* a report of two blocks for packages that were given in descending order
C5_Witness ==
    /\ Reported
    /\ Len(HeaderPaths) >= 2
    /\ Len(packages) >= 2
    /\ Less(packages[2], packages[1])
    /\ {packages[1], packages[2]} \subseteq Range(HeaderPaths)

(* ------------------------------------------------------------------ *)
(* C6                                                                  *)
(* ------------------------------------------------------------------ *)
\* the lines of the declarations of the objects that came from package p and
\* pass the filter, in the order the extractor met them
RECURSIVE ExpectedBlock(_, _)
ExpectedBlock(objs, p) ==
    IF Len(objs) = 0 THEN <<>>
    ELSE (IF objs[1].pkg = p
          THEN LET ds == SelectSeq(Decls(objs[1]), Matches)
               IN  [i \in DOMAIN ds |-> formatSignature(function(ds[i], p))]
          ELSE <<>>)
         \o ExpectedBlock(Tail(objs), p)

\* C6: under each package the signature lines stand in the order in which
\* the extractor met their declarations (packages as given, objects in scope
\* order, the methods of a type in method order at the place of the type),
\* never re-sorted, and a method stands under the package of the type it was
\* enumerated from.
C6_EncounterOrderWithinBlock ==
    Reported =>
        \A p \in Owners :
            /\ HasBlock(p)
            /\ BlockLines(p) = ExpectedBlock(objects, p)

\* a block of at least two lines that is not in sorted order and holds a
\* method whose own Pkg() is nil
C6_Witness ==
    /\ Reported
    /\ \E p \in DOMAIN signatures :
          /\ Len(signatures[p]) >= 2
          /\ Less(signatures[p][2], signatures[p][1])
          /\ \E i \in DOMAIN funcs :
                /\ funcs[i].Pkg = p
                /\ Len(funcs[i].Func.pkg) = 0
                /\ kept(funcs[i])

(* ------------------------------------------------------------------ *)
(* C7                                                                  *)
(* ------------------------------------------------------------------ *)
\* C7: every package-level error is printed to standard error, once each and
\* in the order the failing packages were met (so they are the first lines
\* of standard error, written before anything else), and the report of the
\* remaining packages still follows on standard output.
C7_ErrorsOnStandardError ==
    Reported =>
        /\ Len(stderr) >= Len(errs)
        /\ SubSeq(stderr, 1, Len(errs)) = errs
        /\ stdout = ReportFor(SelectSeq(packages, Resolves))

(* ------------------------------------------------------------------ *)
(* C8                                                                  *)
(* ------------------------------------------------------------------ *)
StartsWith(str, q) == Len(q) <= Len(str) /\ SubSeq(str, 1, Len(q)) = q

\* the name up to the first occurrence of the marker, the whole name if the
\* marker does not occur in it
Stripped(name) ==
    LET cuts == {k \in 0..Len(name) :
                    StartsWith(SubSeq(name, k + 1, Len(name)), sDot)}
    IN  IF cuts = {} THEN name
        ELSE SubSeq(name, 1, CHOOSE k \in cuts : \A k2 \in cuts : k <= k2)

\* one element of a list: "name Type", or "Type" when it has no name
ElementText(v) ==
    IF Stripped(v.name) = <<>> THEN v.type
    ELSE Stripped(v.name) \o <<32>> \o v.type

\* the elements in declared order, with ", " between neighbours
RECURSIVE ListText(_)
ListText(tuple) ==
    IF Len(tuple) = 0 THEN <<>>
    ELSE ElementText(tuple[1])
            \o (IF Len(tuple) > 1 THEN <<44,32>> ELSE <<>>)
            \o ListText(Tail(tuple))

\* the line of a declaration: "(name Type) " for a method only, the name,
\* "(" parameters ") (" results ")"
Rendered(f, isMethod) ==
    (IF isMethod
     THEN <<40>> \o Stripped(f.sig.recv[1].name) \o <<32>>
            \o f.sig.recv[1].type \o <<41,32>>
     ELSE <<>>)
    \o f.name \o <<40>> \o ListText(f.sig.params) \o <<41>>
    \o <<32>> \o <<40>> \o ListText(f.sig.results) \o <<41>>

\* the signature lines of the report, without their tab
PrintedSignatures ==
    {Tail(l) : l \in {x \in Range(ReportPart) : IsSignatureLine(x)}}

\* "(t *T) Foo() (error)"
sFooLine == <<40,116,32,42,84,41,32,70,111,111,40,41,32,40,101,114,114,111,114,41>>

C9_RepeatedRunSameOutput ==
    (run = 2 /\ pc = "exited") =>
        /\ stdout = previous.stdout
        /\ stderr = previous.stderr
        /\ exitStatus = previous.exitStatus

\* a second run that ended with a report of two blocks
C9_Witness ==
    /\ run = 2
    /\ Reported
    /\ Cardinality(DOMAIN signatures) >= 2
    /\ previous.exitStatus = 0

(* ------------------------------------------------------------------ *)
(* C10                                                                 *)
(* ------------------------------------------------------------------ *)
\* C10: once the flags are accepted, every function AND mode keeps is kept
\* by OR mode too, for the same functions and filters; in particular AND
\* mode keeps no function without a matching parameter or result.
C10_AndSubsetOfOr ==
    (pc # "main" /\ exitStatus # 1) =>
        \A i \in DOMAIN funcs :
            /\ keptWith(funcs[i], TRUE) => keptWith(funcs[i], FALSE)
            /\ keptWith(funcs[i], TRUE) => OrMatch(funcs[i].Func)

\* an AND-mode run with an empty --args list that kept one function and
\* dropped another that has a signature
C10_Witness ==
    /\ Reported /\ and /\ Len(arguments) = 0
    /\ \E i, j \in DOMAIN funcs :
          /\ keptWith(funcs[i], TRUE)
          /\ funcs[i].Pkg \in DOMAIN signatures
          /\ funcs[j].Func.sig.ok
          /\ ~keptWith(funcs[j], FALSE)

====
